---------------------------- MODULE Spec2Model ----------------------------
(***************************************************************************)
(* A model of the word-translator service of src/app.py: the class        *)
(* TranslationPredictor (language registry, mock translation table,       *)
(* keyword language detection, translate_text) and the four routes that   *)
(* call it (/api/languages, /api/detect, /api/translate,                  *)
(* /api/translate_batch).                                                  *)
(*                                                                         *)
(* A Python str is modelled as a sequence of characters, each character a *)
(* TLA+ string, so that lower(), strip(), the substring test              *)
(* `word in text` and the f-string of the placeholder are computed        *)
(* character by character.  An accented letter is written as the letter   *)
(* followed by its accent: "a_grave" is a-grave, "e_circ" is e-circumflex, "o_acute" is *)
(* o-acute.  A confidence is an integer number of hundredths (1.0 is 100, *)
(* 0.95 is 95, 0.7 is 70).                                                 *)
(***************************************************************************)
EXTENDS Naturals, Sequences, FiniteSets, TLC

VARIABLES
    languages,          \* translator.languages          (app.py 18-31)
    mock_translations,  \* translator.mock_translations  (app.py 34-45)
    req,                \* per worker: the request (or method call) it serves
    resp                \* per worker: the response it produced, once done

vars == <<languages, mock_translations, req, resp>>

----------------------------------------------------------------------------
(* Bounds of the model.                                                    *)

\* The longest input text is the concatenation of MaxTokens vocabulary tokens.
MaxTokens == 3

\* The longest `texts` list of a batch request.
MaxBatch == 3

----------------------------------------------------------------------------
(* Python str operations.                                                  *)

UpperChars ==
    << "A", "B", "C", "D", "E", "F", "G", "H", "I", "J", "K", "L", "M",
       "N", "O", "P", "Q", "R", "S", "T", "U", "V", "W", "X", "Y", "Z",
       "A_grave", "E_circ", "O_acute", "I_acute" >>

LowerChars ==
    << "a", "b", "c", "d", "e", "f", "g", "h", "i", "j", "k", "l", "m",
       "n", "o", "p", "q", "r", "s", "t", "u", "v", "w", "x", "y", "z",
       "a_grave", "e_circ", "o_acute", "i_acute" >>

\* The characters str.strip() removes (those of them the inputs use).
Whitespace == {" ", "\t", "\n", "\r"}

LowerChar(c) ==
    IF \E i \in DOMAIN UpperChars : UpperChars[i] = c
    THEN LowerChars[CHOOSE i \in DOMAIN UpperChars : UpperChars[i] = c]
    ELSE c

\* str.lower()
Lower(s) == [i \in DOMAIN s |-> LowerChar(s[i])]

\* str.strip(): drop the leading and the trailing whitespace.
Strip(s) ==
    LET keep  == {i \in DOMAIN s : s[i] \notin Whitespace}
        first == CHOOSE i \in keep : \A j \in keep : i <= j
        last  == CHOOSE i \in keep : \A j \in keep : j <= i
    IN  IF keep = {} THEN <<>> ELSE SubSeq(s, first, last)

\* `word in text` on two str: word occurs as a contiguous substring.
Contains(word, text) ==
    \E i \in 0..Len(text) :
        /\ i + Len(word) <= Len(text)
        /\ SubSeq(text, i + 1, i + Len(word)) = word

\* dict.get(key, default)
Get(d, key, default) == IF key \in DOMAIN d THEN d[key] ELSE default

----------------------------------------------------------------------------
(* Language codes and the construction-time tables.                        *)

en == <<"e", "n">>
es == <<"e", "s">>
fr == <<"f", "r">>
de == <<"d", "e">>
it == <<"i", "t">>
pt == <<"p", "t">>
ru == <<"r", "u">>
zh == <<"z", "h">>
ja == <<"j", "a">>
ko == <<"k", "o">>
ar == <<"a", "r">>
hi == <<"h", "i">>
\* a code that is not registered
xx == <<"x", "x">>
\* the sentinel of the routes
auto == <<"a", "u", "t", "o">>

hello        == <<"h", "e", "l", "l", "o">>
goodbye      == <<"g", "o", "o", "d", "b", "y", "e">>
thank_you    == <<"t", "h", "a", "n", "k", " ", "y", "o", "u">>
how_are_you  == <<"h", "o", "w", " ", "a", "r", "e", " ", "y", "o", "u">>
good_morning == <<"g", "o", "o", "d", " ", "m", "o", "r", "n", "i", "n", "g">>
good_night   == <<"g", "o", "o", "d", " ", "n", "i", "g", "h", "t">>

\* self.languages as __init__ builds it
LanguagesInit ==
    [c \in {en, es, fr, de, it, pt, ru, zh, ja, ko, ar, hi} |->
        CASE c = en -> "English"    [] c = es -> "Spanish"
          [] c = fr -> "French"     [] c = de -> "German"
          [] c = it -> "Italian"    [] c = pt -> "Portuguese"
          [] c = ru -> "Russian"    [] c = zh -> "Chinese"
          [] c = ja -> "Japanese"   [] c = ko -> "Korean"
          [] c = ar -> "Arabic"     [] c = hi -> "Hindi"]

\* The dict literal of self.mock_translations, entry by entry: <<key, value>>.
MockEntries ==
    << << <<hello, en, es>>,        <<"h", "o", "l", "a">> >>,
       << <<hello, en, fr>>,        <<"b", "o", "n", "j", "o", "u", "r">> >>,
       << <<hello, en, de>>,        <<"h", "a", "l", "l", "o">> >>,
       << <<goodbye, en, es>>,      <<"a", "d", "i", "o_acute", "s">> >>,
       << <<goodbye, en, fr>>,      <<"a", "u", " ", "r", "e", "v", "o", "i", "r">> >>,
       << <<thank_you, en, es>>,    <<"g", "r", "a", "c", "i", "a", "s">> >>,
       << <<thank_you, en, fr>>,    <<"m", "e", "r", "c", "i">> >>,
       << <<how_are_you, en, es>>,  <<"c", "o_acute", "m", "o", " ", "e", "s", "t", "a_acute", "s">> >>,
       << <<good_morning, en, es>>, <<"b", "u", "e", "n", "o", "s", " ", "d", "i_acute", "a", "s">> >>,
       << <<good_night, en, es>>,   <<"b", "u", "e", "n", "a", "s", " ", "n", "o", "c", "h", "e", "s">> >> >>

\* self.mock_translations as __init__ builds it (a later duplicate key would win)
MockInit ==
    [k \in {MockEntries[i][1] : i \in DOMAIN MockEntries} |->
        LET last == CHOOSE i \in DOMAIN MockEntries :
                        /\ MockEntries[i][1] = k
                        /\ \A j \in DOMAIN MockEntries :
                               MockEntries[j][1] = k => j <= i
        IN  MockEntries[last][2]]

----------------------------------------------------------------------------
(* TranslationPredictor.detect_language                                    *)

english_words ==
    << <<"t", "h", "e">>, <<"a", "n", "d">>, <<"i", "s">>, <<"i", "n">>,
       <<"t", "o">>, <<"o", "f">>, <<"a">>, <<"t", "h", "a", "t">>, <<"i", "t">> >>

spanish_words ==
    << <<"e", "l">>, <<"l", "a">>, <<"d", "e">>, <<"q", "u", "e">>, <<"y">>,
       <<"e", "s">>, <<"e", "n">>, <<"u", "n">>, <<"s", "e", "r">> >>

\* 'et' is listed twice in the source
french_words ==
    << <<"l", "e">>, <<"d", "e">>, <<"e", "t">>, <<"a_grave">>, <<"u", "n">>,
       <<"i", "l">>, <<"e_circ", "t", "r", "e">>, <<"e", "t">>, <<"e", "n">> >>

\* sum(1 for word in words if word in text_lower): one per list entry
WordCount(words, text_lower) ==
    Cardinality({i \in DOMAIN words : Contains(words[i], text_lower)})

english_count(text) == WordCount(english_words, Lower(text))
spanish_count(text) == WordCount(spanish_words, Lower(text))
french_count(text)  == WordCount(french_words, Lower(text))

\* detect_language with `>=` for `>` in its first test
detect_language_ge(text) ==
    IF english_count(text) >= spanish_count(text)
       /\ english_count(text) >= french_count(text)
    THEN en
    ELSE IF spanish_count(text) > french_count(text)
    THEN es
    ELSE IF french_count(text) > 0
    THEN fr
    ELSE en

detect_language(text) ==
    IF english_count(text) > spanish_count(text)
       /\ english_count(text) > french_count(text)
    THEN en
    ELSE IF spanish_count(text) > french_count(text)
    THEN es
    ELSE IF french_count(text) > 0
    THEN fr
    ELSE en

----------------------------------------------------------------------------
(* TranslationPredictor.translate_text                                     *)

ConfidenceIdentity == 100
ConfidenceMock     == 95
ConfidenceFallback == 70

\* the placeholder built from the normalized text
Placeholder_of_normalized(text, source_lang, target_lang) ==
    <<"[", "T", "r", "a", "n", "s", "l", "a", "t", "i", "o", "n", " ", "o", "f", " ", "'">>
    \o Strip(Lower(text))
    \o <<"'", " ", "f", "r", "o", "m", " ">>
    \o source_lang
    \o <<" ", "t", "o", " ">>
    \o target_lang
    \o <<"]">>

\* f"[Translation of '{text}' from {source_lang} to {target_lang}]"
Placeholder(text, source_lang, target_lang) ==
    <<"[", "T", "r", "a", "n", "s", "l", "a", "t", "i", "o", "n", " ", "o", "f", " ", "'">>
    \o text
    \o <<"'", " ", "f", "r", "o", "m", " ">>
    \o source_lang
    \o <<" ", "t", "o", " ">>
    \o target_lang
    \o <<"]">>

\* text.lower() without the strip()
Normalize_no_strip(text) == Lower(text)

\* text.lower().strip()
Normalize(text) == Strip(Lower(text))

\* (text_lower, source_lang, target_lang)
mock_key(text, source_lang, target_lang) ==
    <<Normalize(text), source_lang, target_lang>>

\* translate_text probing the table before it compares the two codes
translate_text_lookup_first(table, text, source_lang, target_lang) ==
    IF mock_key(text, source_lang, target_lang) \in DOMAIN table
    THEN [translated_text |-> table[mock_key(text, source_lang, target_lang)],
          confidence      |-> ConfidenceMock,
          source_lang     |-> source_lang,
          target_lang     |-> target_lang]
    ELSE IF source_lang = target_lang
    THEN [translated_text |-> text,
          confidence      |-> ConfidenceIdentity,
          source_lang     |-> source_lang,
          target_lang     |-> target_lang]
    ELSE [translated_text |-> Placeholder(text, source_lang, target_lang),
          confidence      |-> ConfidenceFallback,
          source_lang     |-> source_lang,
          target_lang     |-> target_lang]

\* translate_text, reading the table `table` (self.mock_translations)
translate_text(table, text, source_lang, target_lang) ==
    IF source_lang = target_lang
    THEN [translated_text |-> text,
          confidence      |-> ConfidenceIdentity,
          source_lang     |-> source_lang,
          target_lang     |-> target_lang]
    ELSE IF mock_key(text, source_lang, target_lang) \in DOMAIN table
    THEN [translated_text |-> table[mock_key(text, source_lang, target_lang)],
          confidence      |-> ConfidenceMock,
          source_lang     |-> source_lang,
          target_lang     |-> target_lang]
    ELSE [translated_text |-> Placeholder(text, source_lang, target_lang),
          confidence      |-> ConfidenceFallback,
          source_lang     |-> source_lang,
          target_lang     |-> target_lang]

\* translator.languages.get(code, code)
language_name_or_code(registry, code) == Get(registry, code, code)

\* translator.languages.get(code, 'Unknown')
language_name(registry, code) == Get(registry, code, "Unknown")

----------------------------------------------------------------------------
(* The routes, as functions of the request's JSON object `data` and of the *)
(* two tables as they are when the handler runs.  The body of a request is *)
(* a JSON object whose text fields are strings and whose `texts` is a list *)
(* of strings, so that no handler reaches its `except` branch.             *)

Reply(status, body) == [done |-> TRUE, status |-> status, body |-> body]

NoText  == Reply(400, [success |-> FALSE, error |-> "No text provided"])
NoTexts == Reply(400, [success |-> FALSE, error |-> "No texts provided"])

\* get_languages
get_languages(registry) ==
    Reply(200, [success |-> TRUE, languages |-> registry])

\* detect_language (the route)
detect_route(registry, data) ==
    LET text == Strip(Get(data, "text", <<>>))
    IN  IF text = <<>>
        THEN NoText
        ELSE Reply(200, [success           |-> TRUE,
                         detected_language |-> detect_language(text),
                         language_name     |-> language_name(registry, detect_language(text)),
                         text              |-> text])

\* translate
translate(registry, table, data) ==
    LET text        == Strip(Get(data, "text", <<>>))
        given       == Get(data, "source_lang", auto)
        target_lang == Get(data, "target_lang", en)
        source_lang == IF given = auto THEN detect_language(text) ELSE given
        result      == translate_text(table, text, source_lang, target_lang)
    IN  IF text = <<>>
        THEN NoText
        ELSE Reply(200, [success              |-> TRUE,
                         original_text        |-> text,
                         translated_text      |-> result.translated_text,
                         source_language      |-> source_lang,
                         source_language_name |-> language_name(registry, source_lang),
                         target_language      |-> target_lang,
                         target_language_name |-> language_name(registry, target_lang),
                         confidence           |-> result.confidence])

\* `if text:` for `if text.strip():`
is_nonblank_unstripped(text) == text # <<>>

\* `if text.strip():` of the batch loop
is_nonblank(text) == Strip(text) # <<>>

\* the pass without the detection
current_source_as_given(source_lang, text) == source_lang

\* current_source of one pass of the batch loop
current_source(source_lang, text) ==
    IF source_lang = auto THEN detect_language(text) ELSE source_lang

\* One pass of `for text in texts:`, appending to results or not.
batch_item(table, results, text, source_lang, target_lang) ==
    IF is_nonblank(text)
    THEN LET result == translate_text(table, text,
                                      current_source(source_lang, text), target_lang)
         IN  Append(results,
                    [original_text   |-> text,
                     translated_text |-> result.translated_text,
                     source_language |-> current_source(source_lang, text),
                     confidence      |-> result.confidence])
    ELSE results

\* The loop assigning the detected language to source_lang itself, so that
\* the passes after the first detection reuse it.
RECURSIVE batch_loop_overwriting(_, _, _, _, _)
batch_loop_overwriting(table, results, texts, source_lang, target_lang) ==
    IF texts = <<>>
    THEN results
    ELSE batch_loop_overwriting(
             table,
             batch_item(table, results, Head(texts), source_lang, target_lang),
             Tail(texts),
             IF is_nonblank(Head(texts))
             THEN current_source(source_lang, Head(texts))
             ELSE source_lang,
             target_lang)

\* The whole loop over texts, from the results built so far.
RECURSIVE batch_loop(_, _, _, _, _)
batch_loop(table, results, texts, source_lang, target_lang) ==
    IF texts = <<>>
    THEN results
    ELSE batch_loop(table,
                    batch_item(table, results, Head(texts), source_lang, target_lang),
                    Tail(texts), source_lang, target_lang)

\* translate_batch
translate_batch(registry, table, data) ==
    LET texts       == Get(data, "texts", <<>>)
        source_lang == Get(data, "source_lang", auto)
        target_lang == Get(data, "target_lang", en)
    IN  IF texts = <<>>
        THEN NoTexts
        ELSE Reply(200, [success              |-> TRUE,
                         results              |-> batch_loop(table, <<>>, texts,
                                                             source_lang, target_lang),
                         target_language      |-> target_lang,
                         target_language_name |-> language_name(registry, target_lang)])

----------------------------------------------------------------------------
(* The inputs.                                                             *)

\* The workers that serve requests at the same time.
Workers == {1, 2}

HELLO == <<"H", "E", "L", "L", "O">>

\* Tokens that input texts are concatenated from: keywords of the three
\* detectable languages ('a' of English; 'y' of Spanish; 'et' of French;
\* A-grave, whose lower case is the French keyword a-grave), a table key in
\* two letter cases (it holds the Spanish keyword 'el'), and whitespace.
Vocabulary ==
    { <<"a">>, <<"y">>, <<"e", "t">>, <<"A_grave">>, hello, HELLO, <<" ">> }

\* The concatenation of a list of tokens.
RECURSIVE Concat(_)
Concat(tokens) ==
    IF Len(tokens) = 0 THEN <<>> ELSE Head(tokens) \o Concat(Tail(tokens))

\* The input texts: the concatenations of at most MaxTokens tokens.
TokenLists(k) == [1..k -> Vocabulary]

\* The items of a batch.
BatchPool ==
    { <<>>, <<"\t", " ">>, hello, <<" ">> \o HELLO \o <<" ">>, goodbye,
      <<"e", "t", " ", "y">> }

RECURSIVE ListsUpTo(_, _)
ListsUpTo(S, n) ==
    IF n = 0
    THEN {<<>>}
    ELSE ListsUpTo(S, n - 1) \cup {Append(l, x) : l \in ListsUpTo(S, n - 1), x \in S}

\* Codes passed to translate_text directly, and the optional fields of a
\* route's JSON object (an absent field is the empty function).
SourceCodes == {en, xx}
TargetCodes == {en, es, xx}

SourceFields == { <<>> } \cup {[source_lang |-> c] : c \in {auto, en, xx}}
TargetFields == { <<>> } \cup {[target_lang |-> c] : c \in {es, xx}}

\* The requests two workers serve at the same time.
ConcTexts == {hello, <<" ", "y">>}
ConcLists == {<<x>> : x \in ConcTexts} \cup {<<hello, <<" ", "y">>>>}

NoRequest == [kind |-> "none"]
Pending   == [done |-> FALSE]

LanguagesRequest         == [kind |-> "languages"]
DetectRequest(data)      == [kind |-> "detect", data |-> data]
TranslateRequest(data)   == [kind |-> "translate", data |-> data]
BatchRequest(data)       == [kind |-> "translate_batch", data |-> data]
DetectCall(text)         == [kind |-> "call_detect_language", text |-> text]
TranslateCall(text, source_lang, target_lang) ==
    [kind |-> "call_translate_text", text |-> text,
     source_lang |-> source_lang, target_lang |-> target_lang]

ConcRequests ==
    UNION { {LanguagesRequest},
            {DetectRequest([text |-> x]) : x \in ConcTexts},
            {TranslateRequest(("text" :> x) @@ s @@ t) :
                x \in ConcTexts, s \in SourceFields, t \in TargetFields},
            {BatchRequest(("texts" :> l) @@ s @@ t) :
                l \in ConcLists, s \in SourceFields, t \in TargetFields},
            {DetectCall(x) : x \in ConcTexts},
            {TranslateCall(x, s, t) :
                x \in ConcTexts, s \in SourceCodes, t \in TargetCodes} }

----------------------------------------------------------------------------
(* The state machine.                                                      *)

Tables ==
    /\ languages = LanguagesInit
    /\ mock_translations = MockInit

\* Worker 1 serves r; the other workers serve nothing.
OneRequest(r) == req = [w \in Workers |-> IF w = 1 THEN r ELSE NoRequest]

\* One request to serve: any route or direct call, on any input text.
Init ==
    /\ Tables
    /\ resp = [w \in Workers |-> Pending]
    /\ \/ OneRequest(LanguagesRequest)
       \/ \E kind \in {"detect", "translate", "translate_batch"} :
             OneRequest([kind |-> kind, data |-> <<>>])
       \/ \E k \in 0..MaxTokens : \E tokens \in TokenLists(k) :
             LET x == Concat(tokens)
             IN  \/ OneRequest(DetectRequest([text |-> x]))
                 \/ \E s \in SourceFields, t \in TargetFields :
                       OneRequest(TranslateRequest(("text" :> x) @@ s @@ t))
                 \/ OneRequest(DetectCall(x))
                 \/ \E s \in SourceCodes, t \in TargetCodes :
                       OneRequest(TranslateCall(x, s, t))
       \/ \E l \in ListsUpTo(BatchPool, MaxBatch), s \in SourceFields, t \in TargetFields :
             OneRequest(BatchRequest(("texts" :> l) @@ s @@ t))

\* One request per worker, served in any order.
InitConc ==
    /\ Tables
    /\ req \in [Workers -> ConcRequests]
    /\ resp = [w \in Workers |-> Pending]

Serving(w, kind) ==
    /\ req[w].kind = kind
    /\ ~resp[w].done

GetLanguages(w) ==
    /\ Serving(w, "languages")
    /\ resp' = [resp EXCEPT ![w] = get_languages(languages)]
    /\ UNCHANGED <<languages, mock_translations, req>>

DetectRoute(w) ==
    /\ Serving(w, "detect")
    /\ resp' = [resp EXCEPT ![w] = detect_route(languages, req[w].data)]
    /\ UNCHANGED <<languages, mock_translations, req>>

TranslateRoute(w) ==
    /\ Serving(w, "translate")
    /\ resp' = [resp EXCEPT ![w] = translate(languages, mock_translations, req[w].data)]
    /\ UNCHANGED <<languages, mock_translations, req>>

TranslateBatchRoute(w) ==
    /\ Serving(w, "translate_batch")
    /\ resp' = [resp EXCEPT ![w] =
                    translate_batch(languages, mock_translations, req[w].data)]
    /\ UNCHANGED <<languages, mock_translations, req>>

\* translator.detect_language(text), called directly
CallDetectLanguage(w) ==
    /\ Serving(w, "call_detect_language")
    /\ resp' = [resp EXCEPT ![w] = [done |-> TRUE, value |-> detect_language(req[w].text)]]
    /\ UNCHANGED <<languages, mock_translations, req>>

\* translate_text keeping the placeholder it built in the table
CallTranslateText_caching(w) ==
    /\ req[w].kind = "call_translate_text"
    /\ ~resp[w].done
    /\ LET result == translate_text(mock_translations, req[w].text,
                                    req[w].source_lang, req[w].target_lang)
       IN  /\ resp' = [resp EXCEPT ![w] = [done |-> TRUE, value |-> result]]
           /\ mock_translations' =
                  IF result.confidence = ConfidenceFallback
                  THEN (mock_key(req[w].text, req[w].source_lang, req[w].target_lang)
                            :> result.translated_text) @@ mock_translations
                  ELSE mock_translations
    /\ UNCHANGED <<languages, req>>

\* translator.translate_text(text, source_lang, target_lang), called directly
CallTranslateText(w) ==
    /\ Serving(w, "call_translate_text")
    /\ resp' = [resp EXCEPT ![w] =
                    [done  |-> TRUE,
                     value |-> translate_text(mock_translations, req[w].text,
                                              req[w].source_lang, req[w].target_lang)]]
    /\ UNCHANGED <<languages, mock_translations, req>>

Next ==
    \E w \in Workers :
        \/ GetLanguages(w)
        \/ DetectRoute(w)
        \/ TranslateRoute(w)
        \/ TranslateBatchRoute(w)
        \/ CallDetectLanguage(w)
        \/ CallTranslateText(w)

Spec == Init /\ [][Next]_vars

SpecConc == InitConc /\ [][Next]_vars

----------------------------------------------------------------------------
(* What a finished worker shows.                                           *)

Done(w, kind) == req[w].kind = kind /\ resp[w].done

\* A detection that ran: the direct call, or the route on a non-empty text.
Detected(w) ==
    \/ Done(w, "call_detect_language")
    \/ Done(w, "detect") /\ resp[w].status = 200

DetectedText(w) ==
    IF req[w].kind = "call_detect_language" THEN req[w].text ELSE resp[w].body.text

DetectedLang(w) ==
    IF req[w].kind = "call_detect_language"
    THEN resp[w].value
    ELSE resp[w].body.detected_language

Detectable == {en, es, fr}

\* The count the code compares, per language.
CountOf(lang, text) ==
    CASE lang = en -> english_count(text)
      [] lang = es -> spanish_count(text)
      [] lang = fr -> french_count(text)

\* The languages that share the highest count.
Tied(text) ==
    {l \in Detectable : \A m \in Detectable : CountOf(m, text) <= CountOf(l, text)}

\* Two or more languages share the highest count, which is above zero.
IsTie(text) ==
    /\ Cardinality(Tied(text)) >= 2
    /\ \E l \in Detectable : CountOf(l, text) > 0

\* The place of a language in the order English, Spanish, French.
Rank(lang) == CASE lang = en -> 1 [] lang = es -> 2 [] lang = fr -> 3

FirstTied(text) == CHOOSE l \in Tied(text) : \A m \in Tied(text) : Rank(l) <= Rank(m)
LastTied(text)  == CHOOSE l \in Tied(text) : \A m \in Tied(text) : Rank(m) <= Rank(l)

----------------------------------------------------------------------------
(* C1 *)

\* C1, as stated: whenever two or more of English, Spanish and French share
\* the highest keyword count and that count is above zero, detect returns the
\* tied language that comes first in the order English, Spanish, French.
C1_TieGoesToFirstInOrder ==
    \A w \in Workers :
        Detected(w) /\ IsTie(DetectedText(w))
            => DetectedLang(w) = FirstTied(DetectedText(w))

\* C1, amended: with each count taken as the code computes it, a shared
\* highest count above zero goes to the tied language that comes last in the
\* order English, Spanish, French: French wins every tie it is part of and
\* Spanish wins an English/Spanish tie.
C1_TieGoesToLastInOrder ==
    \A w \in Workers :
        Detected(w) /\ IsTie(DetectedText(w))
            => DetectedLang(w) = LastTied(DetectedText(w))

\* A detection ran on a text where English and Spanish tie above French.
C1_Witness ==
    \E w \in Workers :
        /\ Detected(w)
        /\ IsTie(DetectedText(w))
        /\ Tied(DetectedText(w)) = {en, es}
        /\ DetectedLang(w) = es

----------------------------------------------------------------------------
(* C2 *)

\* The number of different words of a list that occur in the lowercased text.
WordsPresent(words, text) ==
    Cardinality({words[i] : i \in {j \in DOMAIN words : Contains(words[j], Lower(text))}})

PresentOf(lang, text) ==
    CASE lang = en -> WordsPresent(english_words, text)
      [] lang = es -> WordsPresent(spanish_words, text)
      [] lang = fr -> WordsPresent(french_words, text)

\* C2: detect returns en, es or fr; the number of the returned language's
\* function words that occur in the lowercased text is at least that of each
\* of the other two languages; and the result is en when no word of any of
\* the three occurs.
C2_HighestCountWins ==
    \A w \in Workers :
        Detected(w) =>
            /\ DetectedLang(w) \in Detectable
            /\ \A m \in Detectable :
                   PresentOf(m, DetectedText(w)) <= PresentOf(DetectedLang(w), DetectedText(w))
            /\ (\A m \in Detectable : PresentOf(m, DetectedText(w)) = 0)
                   => DetectedLang(w) = en

----------------------------------------------------------------------------
(* C3 *)

\* The table with an entry added for the key translate_text would probe.
WithEntry(table, text, source_lang, target_lang) ==
    (mock_key(text, source_lang, target_lang) :> <<"?">>) @@ table

\* C3: resolve(x, L, L) returns x unchanged with confidence 1.0 and source
\* and target both L, for every text x and every code L, and the table is
\* not consulted: the result is x even when the table holds an entry for
\* the key of (x, L, L).
C3_IdentityReturnsText ==
    \A w \in Workers :
        Done(w, "call_translate_text") /\ req[w].source_lang = req[w].target_lang
            => /\ resp[w].value = [translated_text |-> req[w].text,
                                   confidence      |-> 100,
                                   source_lang     |-> req[w].source_lang,
                                   target_lang     |-> req[w].source_lang]
               /\ translate_text(WithEntry(mock_translations, req[w].text,
                                           req[w].source_lang, req[w].target_lang),
                                 req[w].text, req[w].source_lang,
                                 req[w].target_lang).translated_text = req[w].text

\* resolve ran with source = target = an unregistered code, on a text that
\* trimming and lowercasing would change.
C3_Witness ==
    \E w \in Workers :
        /\ Done(w, "call_translate_text")
        /\ req[w].source_lang = xx
        /\ req[w].target_lang = xx
        /\ req[w].text = <<" ">> \o HELLO
        /\ resp[w].value.translated_text = <<" ">> \o HELLO

----------------------------------------------------------------------------
(* C4 *)

\* Whitespace on both sides removed, then every letter lowercased.
IsBlank(text) == \A i \in DOMAIN text : text[i] \in Whitespace

RECURSIVE TrimLeft(_)
TrimLeft(text) ==
    IF text # <<>> /\ Head(text) \in Whitespace THEN TrimLeft(Tail(text)) ELSE text

RECURSIVE TrimRight(_)
TrimRight(text) ==
    IF text # <<>> /\ text[Len(text)] \in Whitespace
    THEN TrimRight(SubSeq(text, 1, Len(text) - 1))
    ELSE text

TrimmedLowercased(text) == Lower(TrimRight(TrimLeft(text)))

\* C4: when source differs from target and the trimmed and lowercased text
\* with (source, target) is a key of the static table, resolve returns the
\* stored translation with confidence 0.95, whatever the letter case and
\* the surrounding whitespace of the text.
C4_ExactMatchOnNormalizedText ==
    \A w \in Workers :
        /\ Done(w, "call_translate_text")
        /\ req[w].source_lang # req[w].target_lang
        /\ <<TrimmedLowercased(req[w].text), req[w].source_lang, req[w].target_lang>>
               \in DOMAIN MockInit
        => /\ resp[w].value.translated_text =
                  MockInit[<<TrimmedLowercased(req[w].text),
                             req[w].source_lang, req[w].target_lang>>]
           /\ resp[w].value.confidence = 95

\* resolve found 'hola' for a text in upper case with whitespace around it.
C4_Witness ==
    \E w \in Workers :
        /\ Done(w, "call_translate_text")
        /\ req[w].text = <<" ">> \o HELLO \o <<" ">>
        /\ req[w].source_lang = en
        /\ req[w].target_lang = es
        /\ resp[w].value.translated_text = <<"h", "o", "l", "a">>
        /\ resp[w].value.confidence = 95

----------------------------------------------------------------------------
(* C5 *)

\* C5: when source differs from target and the normalized key is not in the
\* table, resolve returns confidence 0.7 and a string in square brackets
\* that holds the text exactly as passed in, between quotes, and the source
\* and the target code; that string is no value of the table.
C5_FallbackPlaceholder ==
    \A w \in Workers :
        /\ Done(w, "call_translate_text")
        /\ req[w].source_lang # req[w].target_lang
        /\ <<TrimmedLowercased(req[w].text), req[w].source_lang, req[w].target_lang>>
               \notin DOMAIN MockInit
        => LET out == resp[w].value.translated_text
           IN  /\ resp[w].value.confidence = 70
               /\ Head(out) = "["
               /\ out[Len(out)] = "]"
               /\ Contains(<<"'">> \o req[w].text \o <<"'">>, out)
               /\ Contains(<<" ">> \o req[w].source_lang \o <<" ">>, out)
               /\ Contains(<<" ">> \o req[w].target_lang \o <<"]">>, out)
               /\ \A k \in DOMAIN MockInit : MockInit[k] # out

\* resolve fell back on a text with upper case and surrounding whitespace.
C5_Witness ==
    \E w \in Workers :
        /\ Done(w, "call_translate_text")
        /\ req[w].text = <<" ">> \o HELLO \o <<" ">>
        /\ req[w].source_lang = en
        /\ req[w].target_lang = xx
        /\ resp[w].value.confidence = 70

----------------------------------------------------------------------------
(* What a finished batch shows.                                            *)

\* The batch route ran on a non-empty list of texts.
BatchServed(w) ==
    /\ Done(w, "translate_batch")
    /\ "texts" \in DOMAIN req[w].data
    /\ req[w].data.texts # <<>>

NonBlank(text) == ~IsBlank(text)

\* The items of the batch that are not blank, in the order of the input.
Items(w) == SelectSeq(req[w].data.texts, NonBlank)

GivenSource(w) ==
    IF "source_lang" \in DOMAIN req[w].data THEN req[w].data.source_lang ELSE auto

GivenTarget(w) ==
    IF "target_lang" \in DOMAIN req[w].data THEN req[w].data.target_lang ELSE en

----------------------------------------------------------------------------
(* C6 *)

\* C6: for a non-empty list of texts the batch succeeds with exactly one
\* result per item that is not blank, in the order of the input, and none
\* for a blank item; a list of blank items gives no result and no error.
C6_BatchSkipsBlankKeepsOrder ==
    \A w \in Workers :
        BatchServed(w) =>
            LET results == resp[w].body.results
            IN  /\ resp[w].status = 200
                /\ resp[w].body.success
                /\ Len(results) = Len(Items(w))
                /\ \A i \in 1..Len(results) :
                       /\ results[i].original_text = Items(w)[i]
                       /\ results[i].translated_text # <<>>

\* A batch with a blank item between two others gave the two results.
C6_Witness ==
    \E w \in Workers :
        /\ BatchServed(w)
        /\ req[w].data.texts = <<hello, <<"\t", " ">>, goodbye>>
        /\ Len(resp[w].body.results) = 2
        /\ resp[w].body.results[2].original_text = goodbye

----------------------------------------------------------------------------
(* C7 *)

\* What resolving one item alone gives: its source is detected from the
\* item when the given source is 'auto', and is the given source otherwise.
ItemAlone(text, given, target_lang) ==
    LET source == IF given = auto THEN detect_language(text) ELSE given
        result == translate_text(MockInit, text, source, target_lang)
    IN  [original_text   |-> text,
         translated_text |-> result.translated_text,
         source_language |-> source,
         confidence      |-> result.confidence]

\* C7: every result of a batch is what resolving its item alone gives, with
\* the source detected per item under 'auto' and the given source
\* otherwise: it does not depend on the other items of the batch.
C7_BatchItemsIndependent ==
    \A w \in Workers :
        BatchServed(w) =>
            /\ Len(resp[w].body.results) = Len(Items(w))
            /\ \A i \in 1..Len(Items(w)) :
                   resp[w].body.results[i] =
                       ItemAlone(Items(w)[i], GivenSource(w), GivenTarget(w))

\* A batch under 'auto' detected Spanish for one item and French for the next.
C7_Witness ==
    \E w \in Workers :
        /\ BatchServed(w)
        /\ GivenSource(w) = auto
        /\ Len(resp[w].body.results) >= 2
        /\ resp[w].body.results[1].source_language = es
        /\ resp[w].body.results[2].source_language = fr

----------------------------------------------------------------------------
(* C8 *)

\* The display name of a code: its registered name, or 'Unknown'.
NameOf(code) ==
    IF code \in DOMAIN LanguagesInit THEN LanguagesInit[code] ELSE "Unknown"

\* C8: resolve returns a result that carries the source and target codes
\* as given, for every text and every code, registered or not; the routes
\* answer 200 on a text that is not blank, with the registered name of a
\* registered code and 'Unknown' for every other code.
C8_UnknownCodesAreNotErrors ==
    \A w \in Workers :
        /\ Done(w, "call_translate_text") =>
               /\ DOMAIN resp[w].value =
                      {"translated_text", "confidence", "source_lang", "target_lang"}
               /\ resp[w].value.source_lang = req[w].source_lang
               /\ resp[w].value.target_lang = req[w].target_lang
               /\ resp[w].value.confidence \in {100, 95, 70}
        /\ Done(w, "translate") /\ "text" \in DOMAIN req[w].data
                                /\ NonBlank(req[w].data.text) =>
               /\ resp[w].status = 200
               /\ resp[w].body.target_language = GivenTarget(w)
               /\ GivenSource(w) # auto => resp[w].body.source_language = GivenSource(w)
               /\ resp[w].body.source_language_name = NameOf(resp[w].body.source_language)
               /\ resp[w].body.target_language_name = NameOf(GivenTarget(w))
        /\ BatchServed(w) =>
               /\ resp[w].status = 200
               /\ resp[w].body.target_language = GivenTarget(w)
               /\ resp[w].body.target_language_name = NameOf(GivenTarget(w))

\* The translate route resolved to an unregistered target code and named
\* it 'Unknown'.
C8_Witness ==
    \E w \in Workers :
        /\ Done(w, "translate")
        /\ resp[w].status = 200
        /\ GivenSource(w) = en
        /\ GivenTarget(w) = xx
        /\ resp[w].body.target_language = xx
        /\ resp[w].body.target_language_name = "Unknown"
        /\ resp[w].body.confidence = 70

----------------------------------------------------------------------------
(* C9 *)

\* The response to request r served alone, on the tables as constructed.
Alone(r) ==
    CASE r.kind = "languages"            -> get_languages(LanguagesInit)
      [] r.kind = "detect"               -> detect_route(LanguagesInit, r.data)
      [] r.kind = "translate"            -> translate(LanguagesInit, MockInit, r.data)
      [] r.kind = "translate_batch"      -> translate_batch(LanguagesInit, MockInit, r.data)
      [] r.kind = "call_detect_language" ->
             [done |-> TRUE, value |-> detect_language(r.text)]
      [] r.kind = "call_translate_text"  ->
             [done  |-> TRUE,
              value |-> translate_text(MockInit, r.text, r.source_lang, r.target_lang)]

\* C9: however the requests of the workers interleave, the registry and the
\* translation table keep their initial contents, every response is the one
\* its request gets when served alone on the initial tables, and two
\* requests with the same inputs get the same response.
C9_RequestsDoNotInterfere ==
    /\ languages = LanguagesInit
    /\ mock_translations = MockInit
    /\ \A w \in Workers : resp[w].done => resp[w] = Alone(req[w])
    /\ \A v, w \in Workers :
           resp[v].done /\ resp[w].done /\ req[v] = req[w] => resp[v] = resp[w]

\* Two workers resolved the same text, which is in no table entry, and both
\* got the placeholder.
C9_Witness ==
    \E v, w \in Workers :
        /\ v # w
        /\ Done(v, "call_translate_text")
        /\ Done(w, "call_translate_text")
        /\ req[v] = req[w]
        /\ resp[v].value.confidence = 70
        /\ resp[w].value.confidence = 70

----------------------------------------------------------------------------
(* C10 *)

\* Worker v served the translate route on a text that is not blank, and
\* worker w the batch route on the list of that one text, with the same
\* source and target fields.
SameTextSingleAndBatch(v, w) ==
    /\ Done(v, "translate")
    /\ "text" \in DOMAIN req[v].data
    /\ NonBlank(req[v].data.text)
    /\ BatchServed(w)
    /\ req[w].data.texts = <<req[v].data.text>>
    /\ GivenSource(v) = GivenSource(w)
    /\ ("source_lang" \in DOMAIN req[v].data) = ("source_lang" \in DOMAIN req[w].data)
    /\ GivenTarget(v) = GivenTarget(w)
    /\ ("target_lang" \in DOMAIN req[v].data) = ("target_lang" \in DOMAIN req[w].data)

HasNoOuterWhitespace(text) == TrimRight(TrimLeft(text)) = text

\* C10, as stated: the translate route on a text that is not blank and the
\* batch route on the list of that one text return the same translated
\* text, the same source language and the same confidence.
C10_SingleAndBatchAgree ==
    \A v, w \in Workers :
        SameTextSingleAndBatch(v, w) =>
            /\ Len(resp[w].body.results) = 1
            /\ resp[w].body.results[1].translated_text = resp[v].body.translated_text
            /\ resp[w].body.results[1].source_language = resp[v].body.source_language
            /\ resp[w].body.results[1].confidence = resp[v].body.confidence

\* C10, amended: the two return the same source language and the same
\* confidence, and the same translated text when the text has no leading
\* or trailing whitespace; the translate route resolves the trimmed text
\* and reports it as the original, the batch route resolves and reports the
\* text as given.
C10_SingleAndBatchAgreeOnTrimmedText ==
    \A v, w \in Workers :
        SameTextSingleAndBatch(v, w) =>
            /\ Len(resp[w].body.results) = 1
            /\ resp[w].body.results[1].source_language = resp[v].body.source_language
            /\ resp[w].body.results[1].confidence = resp[v].body.confidence
            /\ resp[v].body.original_text = TrimRight(TrimLeft(req[v].data.text))
            /\ resp[w].body.results[1].original_text = req[v].data.text
            /\ HasNoOuterWhitespace(req[v].data.text) =>
                   resp[w].body.results[1].translated_text = resp[v].body.translated_text

\* Both routes ran under 'auto' on the same text and detected Spanish.
C10_Witness ==
    \E v, w \in Workers :
        /\ SameTextSingleAndBatch(v, w)
        /\ GivenSource(v) = auto
        /\ req[v].data.text = hello
        /\ resp[v].body.source_language = es
        /\ resp[w].body.results[1].source_language = es
        /\ resp[w].body.results[1].translated_text = resp[v].body.translated_text

=============================================================================
